---------------------------- MODULE Spec2Model ----------------------------
(***************************************************************************)
(* EkClick: order lifecycle and real-time event distribution.              *)
(*                                                                         *)
(* The server side is server/routes.ts (the Express handlers and the       *)
(* WebSocket server) over the DatabaseStorage class and the Drizzle        *)
(* schema.  Every handler is an async function: each `await` is a point    *)
(* where other handlers run, so a handler is modelled as one action per    *)
(* stretch of code between two awaits.                                     *)
(***************************************************************************)
EXTENDS Naturals, Sequences, FiniteSets, TLC

(***************************************************************************)
(* Identities.  The users and vendors tables are not changed by any        *)
(* handler modelled here, so they are fixed tables.                        *)
(***************************************************************************)
Null == "null"
NoUser == "anonymous"

Users == {"c1", "c2", "v1", "v2", "d1", "d2", "a1"}

Role(u) ==
    CASE u \in {"c1", "c2"} -> "user"
      [] u \in {"v1", "v2"} -> "vendor"
      [] u \in {"d1", "d2"} -> "delivery"
      [] u = "a1" -> "admin"
      [] OTHER -> Null

VendorIds == {"V1", "V2"}

\* storage.getVendorByUserId(userId): the id of the vendor row owned by the
\* user, Null when the user owns no vendor (v?.id is then undefined).
getVendorByUserId(u) ==
    CASE u = "v1" -> "V1"
      [] u = "v2" -> "V2"
      [] OTHER -> Null

\* orderStatusEnum, in declaration order.
Statuses ==
    {"pending", "confirmed", "preparing", "ready",
     "picked_up", "in_transit", "delivered", "cancelled"}

\* The identifiers the orders table can generate, and one that it never does.
OrderIds == {"o1", "o2"}
MissingOrderId == "o9"

(***************************************************************************)
(* State.                                                                  *)
(*   orders  the orders table: a function from the ids of its rows to them *)
(*   req     the PUT /api/orders/:id requests in flight or answered; seen  *)
(*           is the status of the row getOrder returned to the handler     *)
(*   chats   the chats table, in insertion order                           *)
(*   creq    the POST /api/chats requests in flight or answered            *)
(*   ws      the server's WebSocket connections: readyState, the orderId   *)
(*           property the message handler sets, and the user whose         *)
(*           browser opened the connection (the server never reads it)     *)
(*   inbox   per connection, the frames the server has sent on it          *)
(*   hook    one instance of the client's useWebSocket hook: its state     *)
(*           (isConnected, lastMessage) and its refs (socketRef,           *)
(*           reconnectTimeoutRef, reconnectAttempts); a ref to a socket or *)
(*           a timer is its index, 0 is null                               *)
(*   sockets the readyState of every WebSocket the hook created            *)
(*   timers  every timer the hook set: its state and its delay in ms       *)
(***************************************************************************)
VARIABLES orders, req, chats, creq, ws, inbox, hook, sockets, timers

vars == <<orders, req, chats, creq, ws, inbox, hook, sockets, timers>>
clientVars == <<hook, sockets, timers>>
orderVars == <<orders, req>>
chatVars == <<chats, creq>>
wsVars == <<ws, inbox>>

Reqs == {"r1", "r2"}

\* A request slot that never carried a request.
IdleReq ==
    [pc |-> "idle", actor |-> NoUser, order |-> MissingOrderId,
     body |-> [f \in {} |-> Null], seen |-> Null, code |-> 0]

ChatReqs == {"q1", "q2"}

IdleChatReq ==
    [pc |-> "idle", actor |-> NoUser, body |-> [f \in {} |-> Null],
     chat |-> 0, code |-> 0]

\* The rows the chats table may hold.
MaxChats == 2

Sessions == {"s1", "s2"}
Undefined == "undefined"

maxReconnectAttempts == 5

\* The WebSockets one hook instance may create.
MaxSockets == 6

Init ==
    /\ orders = [o \in {} |-> Null]
    /\ req = [r \in Reqs |-> IdleReq]
    /\ chats = << >>
    /\ creq = [q \in ChatReqs |-> IdleChatReq]
    /\ ws = [s \in Sessions |->
                [readyState |-> "none", orderId |-> Undefined, user |-> NoUser]]
    /\ inbox = [s \in Sessions |-> << >>]
    /\ hook = [isConnected |-> FALSE, lastMessage |-> Null, socketRef |-> 0,
               reconnectTimeoutRef |-> 0, reconnectAttempts |-> 0]
    /\ sockets = << >>
    /\ timers = << >>


(***************************************************************************)
(* Request bodies.  A body is a JSON object: a function from the keys it   *)
(* carries to their values.                                                *)
(***************************************************************************)
EmptyBody == [f \in {} |-> Null]

\* The columns of the orders table a client can name (schema: orders).
OrderColumns ==
    {"userId", "vendorId", "deliveryPersonId", "status",
     "paymentStatus", "actualDeliveryTime"}

PaymentStatuses == {"pending", "paid", "failed"}

\* What the client's dashboards send ({ status }) and what any HTTP client may
\* send in its place.
UpdateBodies ==
    {[status |-> s] : s \in Statuses \cup {"bogus"}}
    \cup {[deliveryPersonId |-> d] : d \in {"d1", "d2", Null}}
    \cup {[actualDeliveryTime |-> "t1"], [paymentStatus |-> "paid"],
          [status |-> "delivered", paymentStatus |-> "paid"], EmptyBody}

CreateBodies ==
    {[vendorId |-> "V1"],
     [vendorId |-> "V1", status |-> "ready", deliveryPersonId |-> "d1"],
     [status |-> "pending"]}

isAuthenticated(a) == a \in Users

(***************************************************************************)
(* The database.  Postgres rejects a row that breaks the table's           *)
(* constraints, Drizzle rejects an update that sets no column; either way  *)
(* the storage call throws and the handler's catch answers 400.            *)
(***************************************************************************)
ColumnOk(f, v) ==
    CASE f = "status" -> v \in Statuses
      [] f = "paymentStatus" -> v \in PaymentStatuses
      [] f = "userId" -> v \in Users
      [] f = "vendorId" -> v \in VendorIds
      [] f = "deliveryPersonId" -> v \in Users \cup {Null}
      [] OTHER -> TRUE

\* db.update(orders).set(updates): the keys that are columns are written.
SetColumns(updates) == DOMAIN updates \cap OrderColumns

updateRejected(updates) ==
    \/ SetColumns(updates) = {}
    \/ \E f \in SetColumns(updates) : ~ColumnOk(f, updates[f])

\* DatabaseStorage.updateOrder: UPDATE orders SET updates WHERE id = id.
updateOrder(row, updates) ==
    [f \in OrderColumns |->
        IF f \in SetColumns(updates) THEN updates[f] ELSE row[f]]

\* insertOrderSchema.parse: vendorId is required, status and the other
\* optional columns are taken from the body when present.
insertOrderSchemaOk(data) ==
    /\ "vendorId" \in DOMAIN data
    /\ "userId" \in DOMAIN data
    /\ \A f \in DOMAIN data \cap OrderColumns : ColumnOk(f, data[f])

\* DatabaseStorage.createOrder: INSERT with the column defaults of the schema.
NewOrderRow(data) ==
    [f \in OrderColumns |->
        IF f \in DOMAIN data THEN data[f]
        ELSE CASE f = "status" -> "pending"
               [] f = "paymentStatus" -> "pending"
               [] OTHER -> Null]

(***************************************************************************)
(* POST /api/orders                                                        *)
(***************************************************************************)
\* {...req.body, userId: req.user.id}
WithUserId(body, a) ==
    [f \in DOMAIN body \cup {"userId"} |-> IF f = "userId" THEN a ELSE body[f]]

CreateOrder(a, body, ids) ==
    /\ isAuthenticated(a)
    /\ insertOrderSchemaOk(WithUserId(body, a))
    /\ \E o \in ids :
          /\ o \notin DOMAIN orders
          /\ orders' = [x \in DOMAIN orders \cup {o} |->
                          IF x = o THEN NewOrderRow(WithUserId(body, a))
                          ELSE orders[x]]
    /\ UNCHANGED <<req, chatVars, wsVars, clientVars>>

(***************************************************************************)
(* PUT /api/orders/:id                                                     *)
(***************************************************************************)
\* canUpdate without the comparison of the vendor's id with order.vendorId.
canUpdateAnyVendor(order, a) ==
    \/ Role(a) = "admin"
    \/ order.userId = a
    \/ order.deliveryPersonId = a
    \/ Role(a) = "vendor"

\* The permission check of the handler, on the row getOrder returned.
canUpdate(order, a) ==
    \/ Role(a) = "admin"
    \/ order.userId = a
    \/ order.deliveryPersonId = a
    \/ (Role(a) = "vendor" /\ getVendorByUserId(a) = order.vendorId)

Answer(r, a, o, body, seen, code) ==
    req' = [req EXCEPT ![r] =
              [pc |-> "done", actor |-> a, order |-> o, body |-> body,
               seen |-> seen, code |-> code]]

\* The handler if it checked the actor's role before it looked the order up.
PutStartRoleFirst(r, a, o, body) ==
    /\ req[r].pc # "write"
    /\ IF ~isAuthenticated(a) THEN Answer(r, a, o, body, Null, 401)
       ELSE IF o \notin DOMAIN orders
            THEN Answer(r, a, o, body, Null,
                        IF Role(a) = "admin" THEN 404 ELSE 403)
       ELSE IF ~canUpdate(orders[o], a)
            THEN Answer(r, a, o, body, orders[o].status, 403)
       ELSE req' = [req EXCEPT ![r] =
                      [pc |-> "write", actor |-> a, order |-> o, body |-> body,
                       seen |-> orders[o].status, code |-> 0]]
    /\ UNCHANGED <<orders, chatVars, wsVars, clientVars>>

\* From the arrival of the request to the await of storage.updateOrder: the
\* authentication check, getOrder and the permission check.
PutStart(r, a, o, body) ==
    /\ req[r].pc # "write"
    /\ IF ~isAuthenticated(a) THEN Answer(r, a, o, body, Null, 401)
       ELSE IF o \notin DOMAIN orders THEN Answer(r, a, o, body, Null, 404)
       ELSE IF ~canUpdate(orders[o], a)
            THEN Answer(r, a, o, body, orders[o].status, 403)
       ELSE req' = [req EXCEPT ![r] =
                      [pc |-> "write", actor |-> a, order |-> o, body |-> body,
                       seen |-> orders[o].status, code |-> 0]]
    /\ UNCHANGED <<orders, chatVars, wsVars, clientVars>>

\* storage.updateOrder(req.params.id, req.body) and the answer.
PutWrite(r) ==
    /\ req[r].pc = "write"
    /\ LET o == req[r].order
           b == req[r].body
       IN IF updateRejected(b)
          THEN /\ Answer(r, req[r].actor, o, b, req[r].seen, 400)
               /\ UNCHANGED orders
          ELSE /\ orders' = [orders EXCEPT ![o] = updateOrder(orders[o], b)]
               /\ Answer(r, req[r].actor, o, b, req[r].seen, 200)
    /\ UNCHANGED <<chatVars, wsVars, clientVars>>

(***************************************************************************)
(* The dashboards                                                          *)
(***************************************************************************)
\* The vendor dashboard's Update Status button: the status it asks for.
VendorNextStatus(status) ==
    CASE status = "confirmed" -> "preparing"
      [] status = "preparing" -> "ready"
      [] OTHER -> status

\* The button of vendor user v on order o, which GET /api/orders lists for the
\* vendor of v: a PUT with { status: nextStatus } if nextStatus differs from
\* the status shown, nothing otherwise.
VendorUpdateStatus(r, v, o) ==
    /\ o \in DOMAIN orders
    /\ Role(v) = "vendor"
    /\ orders[o].vendorId = getVendorByUserId(v)
    /\ VendorNextStatus(orders[o].status) # orders[o].status
    /\ PutStart(r, v, o, [status |-> VendorNextStatus(orders[o].status)])

\* statusFlow of the delivery dashboard.
getNextStatus(currentStatus) ==
    CASE currentStatus = "ready" -> "picked_up"
      [] currentStatus = "picked_up" -> "in_transit"
      [] currentStatus = "in_transit" -> "delivered"
      [] OTHER -> Undefined

\* The button of delivery user d on order o, one of the active orders assigned
\* to d: it is shown if getNextStatus gives a status, and sends a PUT with it.
DeliveryUpdateStatus(r, d, o) ==
    /\ o \in DOMAIN orders
    /\ Role(d) = "delivery"
    /\ orders[o].deliveryPersonId = d
    /\ orders[o].status \notin {"delivered", "cancelled"}
    /\ getNextStatus(orders[o].status) # Undefined
    /\ PutStart(r, d, o, [status |-> getNextStatus(orders[o].status)])

(***************************************************************************)
(* POST /api/chats                                                         *)
(***************************************************************************)
ChatColumns == {"orderId", "senderId", "receiverId", "message"}

\* {senderId: req.user.id, ...req.body}: a senderId of the body would win.
WithSenderIdBodyFirst(body, a) ==
    [f \in DOMAIN body \cup {"senderId"} |->
        IF f \in DOMAIN body THEN body[f] ELSE a]

\* {...req.body, senderId: req.user.id}
WithSenderId(body, a) ==
    [f \in DOMAIN body \cup {"senderId"} |->
        IF f = "senderId" THEN a ELSE body[f]]

\* insertChatSchema.parse: the NOT NULL columns without a default are required.
insertChatSchemaOk(data) == ChatColumns \subseteq DOMAIN data

\* The foreign keys of the chats table.
chatRejected(data) ==
    \/ data.orderId \notin DOMAIN orders
    \/ data.senderId \notin Users
    \/ data.receiverId \notin Users

\* DatabaseStorage.createChat: the inserted row, with its generated id.
NewChatRow(data) ==
    [id |-> Len(chats) + 1, orderId |-> data.orderId,
     senderId |-> data.senderId, receiverId |-> data.receiverId,
     message |-> data.message]

ChatAnswer(q, a, body, chat, code) ==
    creq' = [creq EXCEPT ![q] =
               [pc |-> "done", actor |-> a, body |-> body,
                chat |-> chat, code |-> code]]

\* From the arrival of the request to the return of storage.createChat.
ChatStart(q, a, body) ==
    /\ creq[q].pc # "broadcast"
    /\ IF ~isAuthenticated(a)
       THEN ChatAnswer(q, a, body, 0, 401) /\ UNCHANGED chats
       ELSE IF \/ ~insertChatSchemaOk(WithSenderId(body, a))
               \/ chatRejected(WithSenderId(body, a))
            THEN ChatAnswer(q, a, body, 0, 400) /\ UNCHANGED chats
       ELSE /\ Len(chats) < MaxChats
            /\ chats' = Append(chats, NewChatRow(WithSenderId(body, a)))
            /\ creq' = [creq EXCEPT ![q] =
                          [pc |-> "broadcast", actor |-> a, body |-> body,
                           chat |-> Len(chats) + 1, code |-> 0]]
    /\ UNCHANGED <<orderVars, wsVars, clientVars>>

\* wss.clients if the server did not drop a connection when it closes.
wssClientsKeepClosed ==
    {s \in Sessions : ws[s].readyState \in {"open", "closing", "closed"}}

\* wss.clients: the connections the WebSocket server holds.
wssClients == {s \in Sessions : ws[s].readyState \in {"open", "closing"}}

\* The forEach with the readyState test inverted.
RecipientsNotOpen(chat) == {s \in wssClients : ws[s].readyState # "open"}

\* The forEach if a client that is not OPEN ended it for all clients.
RecipientsAllOrNone(chat) ==
    IF \E s \in wssClients : ws[s].readyState # "open"
    THEN {}
    ELSE {s \in wssClients : ws[s].readyState = "open"}

\* The clients the forEach of the handler sends the chat to.
Recipients(chat) == {s \in wssClients : ws[s].readyState = "open"}

\* The event if it carried a row the table does not hold.
ChatEventUnsaved(chat) ==
    [type |-> "chat_message", data |-> [chat EXCEPT !.id = chat.id + 1]]

ChatEvent(chat) == [type |-> "chat_message", data |-> chat]

\* The code after `await storage.createChat`: the broadcast and the answer.
ChatBroadcast(q) ==
    /\ creq[q].pc = "broadcast"
    /\ LET chat == chats[creq[q].chat]
       IN /\ inbox' = [s \in Sessions |->
                         IF s \in Recipients(chat)
                         THEN Append(inbox[s], ChatEvent(chat))
                         ELSE inbox[s]]
          /\ ChatAnswer(q, creq[q].actor, creq[q].body, creq[q].chat, 201)
    /\ UNCHANGED <<orderVars, chats, ws, clientVars>>

(***************************************************************************)
(* The WebSocket server                                                    *)
(***************************************************************************)
\* wss.on('connection'): a new connection, with no orderId property.  The
\* upgrade request of user a opens it; the callback does not take the request.
WsConnect(s, a) ==
    /\ ws[s].readyState = "none"
    /\ ws' = [ws EXCEPT ![s] =
                [readyState |-> "open", orderId |-> Undefined, user |-> a]]
    /\ UNCHANGED <<orderVars, chatVars, inbox, clientVars>>

\* A frame is the JSON object it parses to; a frame that is no JSON carries
\* the key "raw".
Frames ==
    {[type |-> "join_order", orderId |-> o] : o \in OrderIds}
    \cup {[type |-> "join_order", data |-> [orderId |-> o]] : o \in OrderIds}
    \cup {[action |-> "join_order", orderId |-> "o1"], [raw |-> "x"]}

Field(data, k) == IF k \in DOMAIN data THEN data[k] ELSE Undefined

\* ws.on('message'): JSON.parse, then `ws.orderId = data.orderId` for a frame
\* whose type is 'join_order'; a frame that does not parse is logged.
Received(s, frame) ==
    IF "raw" \notin DOMAIN frame /\ Field(frame, "type") = "join_order"
    THEN [ws EXCEPT ![s].orderId = Field(frame, "orderId")]
    ELSE ws

WsMessage(s, frame) ==
    /\ ws[s].readyState = "open"
    /\ ws' = Received(s, frame)
    /\ UNCHANGED <<orderVars, chatVars, inbox, clientVars>>

\* The closing handshake starts: the connection is no longer OPEN.
WsClosing(s) ==
    /\ ws[s].readyState = "open"
    /\ ws' = [ws EXCEPT ![s].readyState = "closing"]
    /\ UNCHANGED <<orderVars, chatVars, inbox, clientVars>>

\* ws.on('close'): the connection is gone from wss.clients; the handler logs.
WsClose(s) ==
    /\ ws[s].readyState \in {"open", "closing"}
    /\ ws' = [ws EXCEPT ![s].readyState = "closed"]
    /\ UNCHANGED <<orderVars, chatVars, inbox, clientVars>>

(***************************************************************************)
(* The client hook useWebSocket                                            *)
(***************************************************************************)
serverVars == <<orderVars, chatVars, wsVars>>

Min(a, b) == IF a < b THEN a ELSE b

\* The delay without Math.min.
delayUncapped(n) == 1000 * 2^n

\* Math.min(1000 * Math.pow(2, reconnectAttempts.current), 30000)
delay(n) == Min(1000 * 2^n, 30000)

\* The frames a socket of the hook may receive.
ClientFrames == {"m1"}

\* connect(): a new WebSocket, in state CONNECTING, replaces socketRef.current.
connect ==
    /\ Len(sockets) < MaxSockets
    /\ sockets' = Append(sockets, "connecting")
    /\ hook' = [hook EXCEPT !.socketRef = Len(sockets) + 1]

\* connect() called by the effect of the mount or by the caller of the hook.
Connect ==
    /\ connect
    /\ UNCHANGED <<timers, serverVars>>

\* The timer of onclose fires: connect().
TimerFires(t) ==
    /\ timers[t].st = "pending"
    /\ timers' = [timers EXCEPT ![t].st = "fired"]
    /\ connect
    /\ UNCHANGED serverVars

\* onopen of socket i.
OnOpen(i) ==
    /\ sockets[i] = "connecting"
    /\ sockets' = [sockets EXCEPT ![i] = "open"]
    /\ hook' = [hook EXCEPT !.isConnected = TRUE, !.reconnectAttempts = 0]
    /\ UNCHANGED <<timers, serverVars>>

\* onmessage of socket i, for a frame that parses.
OnMessage(i, m) ==
    /\ sockets[i] = "open"
    /\ hook' = [hook EXCEPT !.lastMessage = m]
    /\ UNCHANGED <<sockets, timers, serverVars>>

\* onclose of socket i: the connection failed, was lost or was closed.
OnClose(i) ==
    /\ sockets[i] # "closed"
    /\ sockets' = [sockets EXCEPT ![i] = "closed"]
    /\ IF hook.reconnectAttempts < maxReconnectAttempts
       THEN /\ timers' = Append(timers,
                           [st |-> "pending",
                            delay |-> delay(hook.reconnectAttempts + 1)])
            /\ hook' = [hook EXCEPT
                          !.isConnected = FALSE,
                          !.reconnectAttempts = hook.reconnectAttempts + 1,
                          !.reconnectTimeoutRef = Len(timers) + 1]
       ELSE /\ timers' = timers
            /\ hook' = [hook EXCEPT !.isConnected = FALSE]
    /\ UNCHANGED serverVars

\* disconnect(), called by the caller or by the cleanup of the effect.
Disconnect ==
    /\ timers' = IF hook.reconnectTimeoutRef # 0
                    /\ timers[hook.reconnectTimeoutRef].st = "pending"
                 THEN [timers EXCEPT ![hook.reconnectTimeoutRef].st = "cleared"]
                 ELSE timers
    /\ sockets' = IF hook.socketRef # 0
                     /\ sockets[hook.socketRef] \in {"connecting", "open"}
                  THEN [sockets EXCEPT ![hook.socketRef] = "closing"]
                  ELSE sockets
    /\ hook' = [hook EXCEPT !.reconnectTimeoutRef = 0, !.socketRef = 0,
                            !.isConnected = FALSE, !.reconnectAttempts = 0]
    /\ UNCHANGED serverVars

\* The server's connection for socket i of the hook: the connection the
\* server creates for the first socket is called s1, the one for every later
\* socket s2.
Peer(i) == IF i = 1 THEN "s1" ELSE "s2"

\* joinOrderRoom(orderId): the message it hands to sendMessage.
JoinFrame(o) == [type |-> "join_order", data |-> [orderId |-> o]]

\* sendMessage(message), called by the caller of the hook: the message goes
\* out on socketRef.current if that socket is OPEN, and is dropped with a
\* warning otherwise.  JSON.stringify and the server's JSON.parse give the
\* server the same object; its message handler runs on it in this step, since
\* a connection delivers its frames in order and nothing else reads a frame in
\* flight.
SendMessage(message) ==
    /\ ws' = IF /\ hook.socketRef # 0
                /\ sockets[hook.socketRef] = "open"
                /\ ws[Peer(hook.socketRef)].readyState = "open"
             THEN Received(Peer(hook.socketRef), message)
             ELSE ws
    /\ UNCHANGED <<orderVars, chatVars, inbox, clientVars>>

JoinOrderRoom(o) == SendMessage(JoinFrame(o))

(***************************************************************************)
(* Specifications.  The handlers are driven with inputs from small sets;   *)
(* the whole of them make Spec, and its parts are checked apart, since no  *)
(* handler of one part reads what another part writes except the set of    *)
(* existing orders:                                                        *)
(*   SpecOrders  order requests by every actor with every body, one at a   *)
(*               time                                                      *)
(*   SpecRace    status requests by the order's participants, two of them  *)
(*               in flight at once                                         *)
(*   SpecEvents  chat requests and WebSocket connections                   *)
(*   SpecStatus  status requests while WebSocket connections are open      *)
(*   SpecClient  one instance of the client hook                           *)
(*   SpecLink    one instance of the client hook and the server's          *)
(*               connections for its first two sockets                     *)
(*   SpecChat    chat requests whose bodies name a sender, two of them in  *)
(*               flight at once                                            *)
(*   SpecFlow    an order in the hands of the dashboards, and of an        *)
(*               administrator who sends requests of his own               *)
(***************************************************************************)
StatusBodies == {[status |-> s] : s \in Statuses}

OrderNext ==
    \/ \E a \in {"c1"}, body \in CreateBodies : CreateOrder(a, body, {"o1"})
    \/ \E a \in Users \cup {NoUser}, o \in {"o1", MissingOrderId},
          body \in UpdateBodies :
          PutStart("r1", a, o, body)
    \/ PutWrite("r1")

SpecOrders == Init /\ [][OrderNext]_vars

RaceNext ==
    \/ \E a \in {"c1"}, body \in CreateBodies : CreateOrder(a, body, {"o1"})
    \/ \E r \in Reqs, a \in {"v1", "a1"},
          body \in {[status |-> t] : t \in {"confirmed", "preparing", "cancelled"}} :
          PutStart(r, a, "o1", body)
    \/ \E r \in Reqs : PutWrite(r)

SpecRace == Init /\ [][RaceNext]_vars

ChatBodies ==
    {[orderId |-> o, receiverId |-> "c1", message |-> "hi"] :
        o \in OrderIds \cup {MissingOrderId}}
    \cup {[orderId |-> "o1", receiverId |-> "V1", message |-> "hi"],
          [orderId |-> "o1", message |-> "hi"]}

EventNext ==
    \/ \E body \in {[vendorId |-> "V1"]} : CreateOrder("c1", body, OrderIds)
    \/ \E a \in {"d1", NoUser}, body \in ChatBodies : ChatStart("q1", a, body)
    \/ ChatBroadcast("q1")
    \/ WsConnect("s1", "c1")
    \/ WsConnect("s2", "c2")
    \/ \E s \in Sessions, frame \in Frames : WsMessage(s, frame)
    \/ \E s \in Sessions : WsClosing(s)
    \/ \E s \in Sessions : WsClose(s)

SpecEvents == Init /\ [][EventNext]_vars

StatusNext ==
    \/ \E body \in {[vendorId |-> "V1"]} : CreateOrder("c1", body, {"o1"})
    \/ \E a \in {"v1", "v2", "a1"}, body \in StatusBodies :
          PutStart("r1", a, "o1", body)
    \/ PutWrite("r1")
    \/ \E s \in Sessions : WsConnect(s, "c1")
    \/ \E s \in Sessions, frame \in Frames : WsMessage(s, frame)
    \/ \E s \in Sessions : WsClose(s)

SpecStatus == Init /\ [][StatusNext]_vars

ClientNext ==
    \/ Connect
    \/ \E t \in DOMAIN timers : TimerFires(t)
    \/ \E i \in DOMAIN sockets : OnOpen(i)
    \/ \E i \in DOMAIN sockets, m \in ClientFrames : OnMessage(i, m)
    \/ \E i \in DOMAIN sockets : OnClose(i)
    \/ Disconnect

SpecClient == Init /\ [][ClientNext]_vars

\* Chat bodies that name a sender, a user or not, and one that names none.
SenderBodies ==
    {[orderId |-> "o1", senderId |-> x, receiverId |-> "c1", message |-> "hi"] :
        x \in {"c1", "c2", "a1", "nobody"}}
    \cup {[orderId |-> "o1", receiverId |-> "c1", message |-> "hi"]}

ChatNext ==
    \/ CreateOrder("c1", [vendorId |-> "V1"], {"o1"})
    \/ \E q \in ChatReqs, a \in {"c1", "d1", NoUser}, body \in SenderBodies :
          ChatStart(q, a, body)
    \/ \E q \in ChatReqs : ChatBroadcast(q)
    \/ WsConnect("s1", "c1")

SpecChat == Init /\ [][ChatNext]_vars

\* What an administrator sends to move an order along by hand.
AdminBodies == {[status |-> "confirmed"], [deliveryPersonId |-> "d1"]}

FlowNext ==
    \/ CreateOrder("c1", [vendorId |-> "V1"], {"o1"})
    \/ \E v \in {"v1", "v2"} : VendorUpdateStatus("r1", v, "o1")
    \/ \E d \in {"d1", "d2"} : DeliveryUpdateStatus("r1", d, "o1")
    \/ PutWrite("r1")
    \/ \E body \in AdminBodies : PutStart("r2", "a1", "o1", body)
    \/ PutWrite("r2")

\* A button that can be pressed is pressed, and a request the server has read
\* the order for is written.
FlowFairness ==
    /\ WF_vars(\E v \in {"v1", "v2"} : VendorUpdateStatus("r1", v, "o1"))
    /\ WF_vars(\E d \in {"d1", "d2"} : DeliveryUpdateStatus("r1", d, "o1"))
    /\ WF_vars(PutWrite("r1"))
    /\ WF_vars(PutWrite("r2"))

SpecFlow == Init /\ [][FlowNext]_vars /\ FlowFairness

\* The message a caller hands to sendMessage to join with the orderId at the
\* top of the frame.
TopJoinFrame(o) == [type |-> "join_order", orderId |-> o]

LinkNext ==
    \/ Len(sockets) < Cardinality(Sessions) /\ Connect
    \/ \E t \in DOMAIN timers :
          Len(sockets) < Cardinality(Sessions) /\ TimerFires(t)
    \/ \E i \in DOMAIN sockets :
          sockets[i] = "connecting" /\ WsConnect(Peer(i), "c1")
    \/ \E i \in DOMAIN sockets :
          ws[Peer(i)].readyState = "open" /\ OnOpen(i)
    \/ \E o \in OrderIds : JoinOrderRoom(o)
    \/ \E o \in OrderIds : SendMessage(TopJoinFrame(o))
    \/ \E i \in DOMAIN sockets : WsClose(Peer(i))
    \/ \E i \in DOMAIN sockets : OnClose(i)

\* What runs without the caller and without a failure of the network does
\* run: a pending timer fires, the server accepts a connecting socket, and an
\* accepted socket opens.
LinkFairness ==
    /\ WF_vars(\E t \in DOMAIN timers :
                  Len(sockets) < Cardinality(Sessions) /\ TimerFires(t))
    /\ WF_vars(\E i \in DOMAIN sockets :
                  sockets[i] = "connecting" /\ WsConnect(Peer(i), "c1"))
    /\ WF_vars(\E i \in DOMAIN sockets :
                  ws[Peer(i)].readyState = "open" /\ OnOpen(i))

SpecLink == Init /\ [][LinkNext]_vars /\ LinkFairness

Next ==
    \/ \E a \in Users, body \in CreateBodies : CreateOrder(a, body, OrderIds)
    \/ \E r \in Reqs, a \in Users \cup {NoUser},
          o \in OrderIds \cup {MissingOrderId}, body \in UpdateBodies :
          PutStart(r, a, o, body)
    \/ \E r \in Reqs : PutWrite(r)
    \/ \E q \in ChatReqs, a \in Users \cup {NoUser}, body \in ChatBodies :
          ChatStart(q, a, body)
    \/ \E q \in ChatReqs : ChatBroadcast(q)
    \/ \E s \in Sessions, a \in Users \cup {NoUser} : WsConnect(s, a)
    \/ \E s \in Sessions, frame \in Frames : WsMessage(s, frame)
    \/ \E s \in Sessions : WsClosing(s)
    \/ \E s \in Sessions : WsClose(s)
    \/ ClientNext
    \/ \E o \in OrderIds : JoinOrderRoom(o)
    \/ \E o \in OrderIds : SendMessage(TopJoinFrame(o))

Spec == Init /\ [][Next]_vars

(***************************************************************************)
(* The order state machine and the authorization rules as the              *)
(* specification states them (sections 4.1 and 4.2), used to state the     *)
(* properties below.                                                       *)
(***************************************************************************)
Terminal == {"delivered", "cancelled"}

Successor(st) ==
    CASE st = "pending" -> "confirmed"
      [] st = "confirmed" -> "preparing"
      [] st = "preparing" -> "ready"
      [] st = "ready" -> "picked_up"
      [] st = "picked_up" -> "in_transit"
      [] st = "in_transit" -> "delivered"
      [] OTHER -> Null

GraphValid(from, to) ==
    /\ from \notin Terminal
    /\ to = "cancelled" \/ to = Successor(from)

VendorStages == {"confirmed", "preparing", "ready"}
DeliveryStages == {"picked_up", "in_transit", "delivered"}

GuardCovers(order, a, to) ==
    CASE Role(a) = "admin" -> TRUE
      [] Role(a) = "vendor" ->
            getVendorByUserId(a) = order.vendorId /\ to \in VendorStages
      [] Role(a) = "delivery" ->
            order.deliveryPersonId = a /\ to \in DeliveryStages
      [] Role(a) = "user" ->
            /\ order.userId = a
            /\ to = "cancelled"
            /\ order.status \in {"pending", "confirmed"}
      [] OTHER -> FALSE

\* Request r is answered in this step.
Answered(r) == req[r] # req'[r] /\ req'[r].pc = "done"

\* Request r, which asks for a status of an existing order, is answered in
\* this step.
StatusAnswered(r) ==
    /\ Answered(r)
    /\ req'[r].order \in DOMAIN orders
    /\ "status" \in DOMAIN req'[r].body

Accepted(r) == req'[r].code = 200

\* C1: every change of an order's status goes to the immediate successor in
\* the transition graph or from a non-terminal status to cancelled; a
\* delivered or cancelled order never changes status again.
C1_StatusFollowsGraph ==
    [][\A o \in DOMAIN orders :
          orders'[o].status # orders[o].status
             => GraphValid(orders[o].status, orders'[o].status)]_vars

\* C2: a status request succeeds if and only if the authorization rule of the
\* actor covers the transition and the transition is valid in the graph;
\* otherwise it is rejected and the stored status is unchanged.
C2_SucceedsIffAllowed ==
    [][\A r \in Reqs :
          StatusAnswered(r) =>
             LET o == req'[r].order
                 to == req'[r].body.status
             IN /\ Accepted(r) <=>
                      (/\ GuardCovers(orders[o], req'[r].actor, to)
                       /\ GraphValid(orders[o].status, to))
                /\ ~Accepted(r) => orders'[o].status = orders[o].status]_vars

\* Request r is a status request the specification allows from the status
\* its handler read.
AllowedFromSeen(r) ==
    /\ "status" \in DOMAIN req[r].body
    /\ GraphValid(req[r].seen, req[r].body.status)
    /\ GuardCovers(orders[req[r].order], req[r].actor, req[r].body.status)

\* Request r writes in this step; request q, which read the same status of
\* the same order as r, has written since r read.
WritesAfterWinner(r, q) ==
    /\ r # q
    /\ req[r].pc = "write" /\ req'[r].pc = "done"
    /\ req[q].pc = "done" /\ req[q].code = 200
    /\ req[q].order = req[r].order
    /\ req[q].seen = req[r].seen
    /\ AllowedFromSeen(r) /\ AllowedFromSeen(q)
    /\ orders[req[r].order].status = req[q].body.status

\* C3: of two concurrent status requests that read the same status of an
\* order, exactly one succeeds: the one that writes second fails and does not
\* overwrite the status the first one wrote.
C3_LoserFails ==
    [][\A r \in Reqs, q \in Reqs :
          WritesAfterWinner(r, q)
          => /\ req'[r].code # 200
             /\ orders'[req[r].order].status = orders[req[r].order].status]_vars

\* C4: a frame sent on a connection carries an event of the order the
\* connection is subscribed to.
C4_OnlySubscribersReceive ==
    [][\A s \in Sessions :
          inbox'[s] # inbox[s]
          => /\ Len(inbox'[s]) = Len(inbox[s]) + 1
             /\ inbox'[s][Len(inbox'[s])].data.orderId = ws[s].orderId]_vars

\* The chat request q broadcasts in this step.
Broadcasts(q) == creq[q].pc = "broadcast" /\ creq'[q].pc = "done"

PublishedChat(q) == chats[creq[q].chat]

\* C5: an open connection subscribed to order X receives every event
\* published for X, once, in the order of publication: the event is appended
\* to what the connection has received in the step that publishes it, it was
\* not received before, and nothing else is ever appended.
C5_SubscriberReceivesInOrder ==
    [][/\ \A q \in ChatReqs, s \in Sessions :
             (/\ Broadcasts(q)
              /\ ws[s].readyState = "open"
              /\ ws[s].orderId = PublishedChat(q).orderId)
             => /\ inbox'[s] = Append(inbox[s], ChatEvent(PublishedChat(q)))
                /\ \A i \in DOMAIN inbox[s] :
                      inbox[s][i].data.id # PublishedChat(q).id
       /\ \A s \in Sessions :
             inbox'[s] # inbox[s]
             => \E q \in ChatReqs :
                   /\ Broadcasts(q)
                   /\ inbox'[s] = Append(inbox[s], ChatEvent(PublishedChat(q)))
      ]_vars

\* C5 witness: an open connection subscribed to an order has received the two
\* chats published for it, in the order of their insertion.
C5_Witness ==
    \E s \in Sessions :
       /\ ws[s].readyState = "open"
       /\ Len(inbox[s]) = 2
       /\ inbox[s][1].data.id = 1 /\ inbox[s][2].data.id = 2
       /\ inbox[s][1].data.orderId = ws[s].orderId
       /\ inbox[s][2].data.orderId = ws[s].orderId

\* C6: an accepted status change sends one status_changed event to every open
\* connection subscribed to the order (and a rejected request sends none).
C6_StatusEventDelivered ==
    [][\A r \in Reqs, s \in Sessions :
          (/\ StatusAnswered(r)
           /\ ws[s].readyState = "open"
           /\ ws[s].orderId = req'[r].order)
          => IF Accepted(r) /\ orders'[req'[r].order].status # orders[req'[r].order].status
             THEN /\ Len(inbox'[s]) = Len(inbox[s]) + 1
                  /\ inbox'[s][Len(inbox'[s])].type = "status_changed"
             ELSE inbox'[s] = inbox[s]]_vars

\* C7: a customer's status request succeeds only if the customer owns the
\* order, asks for cancelled and the order is pending or confirmed; a customer
\* asking for confirmed, or for cancelled once the order is preparing or
\* later, is answered Forbidden and the order is unchanged.
C7_CustomerOnlyCancels ==
    [][\A r \in Reqs :
          (StatusAnswered(r) /\ Role(req'[r].actor) = "user") =>
             LET row == orders[req'[r].order]
                 to == req'[r].body.status
             IN /\ Accepted(r) =>
                      /\ row.userId = req'[r].actor
                      /\ to = "cancelled"
                      /\ row.status \in {"pending", "confirmed"}
                /\ (\/ to = "confirmed"
                    \/ (to = "cancelled" /\ row.status \notin {"pending", "confirmed"}))
                   => (req'[r].code = 403 /\ orders' = orders)]_vars

\* C8: a vendor's status request succeeds only if the vendor owns the order's
\* vendor and asks for confirmed, preparing or ready from the immediate
\* predecessor; a vendor never moves an order to picked_up, in_transit or
\* delivered.
C8_VendorOwnStagesOnly ==
    [][\A r \in Reqs :
          (StatusAnswered(r) /\ Role(req'[r].actor) = "vendor") =>
             LET row == orders[req'[r].order]
                 to == req'[r].body.status
             IN /\ Accepted(r) =>
                      /\ getVendorByUserId(req'[r].actor) = row.vendorId
                      /\ to \in VendorStages
                      /\ to = Successor(row.status)
                /\ to \in DeliveryStages => orders' = orders]_vars

\* C9: a delivery agent's status request succeeds only if the agent is the
\* order's deliveryPersonId and the transition is ready -> picked_up,
\* picked_up -> in_transit or in_transit -> delivered; an agent who is not
\* assigned to the order changes nothing.
C9_DeliveryOwnStagesOnly ==
    [][\A r \in Reqs :
          (StatusAnswered(r) /\ Role(req'[r].actor) = "delivery") =>
             LET row == orders[req'[r].order]
                 to == req'[r].body.status
             IN /\ Accepted(r) =>
                      /\ row.deliveryPersonId = req'[r].actor
                      /\ to \in DeliveryStages
                      /\ to = Successor(row.status)
                /\ row.deliveryPersonId # req'[r].actor => orders' = orders]_vars

\* The actor is authenticated and is neither an administrator, nor the
\* order's customer, nor its delivery agent, nor the owner of its vendor.
Outsider(order, a) ==
    /\ isAuthenticated(a)
    /\ Role(a) # "admin"
    /\ order.userId # a
    /\ order.deliveryPersonId # a
    /\ getVendorByUserId(a) # order.vendorId

\* Request r arrives in this step.
Arrives(r) == req[r].pc # "write" /\ req'[r] # req[r]

\* C10: an update request on an existing order by an actor who is none of its
\* participants nor an administrator is answered 403 as it arrives, whatever
\* its body, and no order is changed.
C10_OutsiderForbidden ==
    [][\A r \in Reqs :
          (/\ Arrives(r)
           /\ req'[r].order \in DOMAIN orders
           /\ Outsider(orders[req'[r].order], req'[r].actor))
          => /\ req'[r].pc = "done"
             /\ req'[r].code = 403
             /\ orders' = orders]_vars

\* C10 witness: a vendor who does not own the order's vendor, and who asked
\* for a status of the order, holds the answer 403.
C10_Witness ==
    \E r \in Reqs :
       /\ req[r].pc = "done"
       /\ req[r].code = 403
       /\ req[r].order \in DOMAIN orders
       /\ Role(req[r].actor) = "vendor"
       /\ "status" \in DOMAIN req[r].body
       /\ Outsider(orders[req[r].order], req[r].actor)

\* C11: a status request that asks for the status the order already has is
\* rejected: it is not answered with success and it changes nothing and sends
\* nothing.
C11_SameStatusRejected ==
    [][\A r \in Reqs :
          (/\ StatusAnswered(r)
           /\ req'[r].body.status = orders[req'[r].order].status)
          => /\ ~Accepted(r)
             /\ orders' = orders
             /\ inbox' = inbox]_vars

\* The statuses at which the specification lets an agent be assigned.
AssignableStatuses == {"pending", "confirmed", "preparing", "ready"}

\* The step gives order o, which exists, an agent it did not have.
SetsAgent(o) ==
    /\ orders'[o].deliveryPersonId # orders[o].deliveryPersonId
    /\ orders'[o].deliveryPersonId # Null

\* C12: an order's deliveryPersonId is set only by the request of an
\* administrator and only while the order is pending, confirmed, preparing or
\* ready; no order is created with one.
C12_OnlyAdminAssigns ==
    [][/\ \A o \in DOMAIN orders :
             SetsAgent(o)
             => /\ orders[o].status \in AssignableStatuses
                /\ \E r \in Reqs :
                      /\ Answered(r)
                      /\ req'[r].order = o
                      /\ Role(req'[r].actor) = "admin"
       /\ \A o \in DOMAIN orders' \ DOMAIN orders :
             orders'[o].deliveryPersonId = Null]_vars

\* C13: once an order has a deliveryPersonId, no step changes it or clears it.
C13_AgentImmutable ==
    [][\A o \in DOMAIN orders :
          orders[o].deliveryPersonId # Null
          => orders'[o].deliveryPersonId = orders[o].deliveryPersonId]_vars

\* C14: every order POST /api/orders creates is pending and has no
\* deliveryPersonId, whatever the body of the request carries.
C14_CreatedPendingUnassigned ==
    [][\A o \in DOMAIN orders' \ DOMAIN orders :
          /\ orders'[o].status = "pending"
          /\ orders'[o].deliveryPersonId = Null]_vars

\* C15: an order has an actualDeliveryTime if and only if it is delivered.
C15_StampedIffDelivered ==
    \A o \in DOMAIN orders :
       orders[o].actualDeliveryTime # Null <=> orders[o].status = "delivered"


\* The users who take part in an order: its customer, the owner of its vendor
\* and its delivery agent, if it has one.
Participants(order) ==
    ({order.userId, order.deliveryPersonId}
        \cup {u \in Users : getVendorByUserId(u) = order.vendorId}) \ {Null}

\* The receivers the specification lets sender a address on an order: the
\* customer writes to the vendor or the agent, the vendor and the agent write
\* to the customer, an administrator to any participant.
ReceiversFor(order, a) ==
    CASE a = order.userId -> Participants(order) \ {a}
      [] a \in Participants(order) -> {order.userId}
      [] Role(a) = "admin" -> Participants(order)
      [] OTHER -> {}

\* The chat request q arrives in this step.
ChatArrives(q) == creq[q].pc # "broadcast" /\ creq'[q] # creq[q]

\* C16: a chat row is inserted only if its sender takes part in its order (or
\* is an administrator) and its receiver is one the sender may address; a
\* request that names another receiver is answered 403, inserts no row and
\* sends nothing.
C16_ChatWithinOrder ==
    [][/\ Len(chats') > Len(chats)
          => LET row == chats'[Len(chats')]
             IN row.receiverId \in ReceiversFor(orders[row.orderId], row.senderId)
       /\ \A q \in ChatReqs :
             (/\ ChatArrives(q)
              /\ isAuthenticated(creq'[q].actor)
              /\ {"orderId", "receiverId"} \subseteq DOMAIN creq'[q].body
              /\ creq'[q].body.orderId \in DOMAIN orders
              /\ creq'[q].body.receiverId \notin
                    ReceiversFor(orders[creq'[q].body.orderId], creq'[q].actor))
             => /\ creq'[q].code = 403
                /\ chats' = chats
                /\ inbox' = inbox]_vars

\* C17: a chat published while a connection of the server is closing, and so
\* cannot be sent to, is still sent to every open connection, stays in the
\* chats table, and its request is answered 201.
C17_FailedDeliveryIsolated ==
    [][\A q \in ChatReqs :
          (/\ Broadcasts(q)
           /\ \E s \in wssClients : ws[s].readyState = "closing")
          => /\ \A t \in Sessions :
                   ws[t].readyState = "open"
                   => inbox'[t] = Append(inbox[t], ChatEvent(PublishedChat(q)))
             /\ creq'[q].code = 201
             /\ chats' = chats]_vars

\* C17 witness: connection s received the first chat and is closing without
\* the second one, which connection t received and whose request holds 201: s
\* was closing when the second chat was published.
C17_Witness ==
    \E s \in Sessions, t \in Sessions, q \in ChatReqs :
       /\ ws[s].readyState = "closing"
       /\ Len(inbox[s]) = 1 /\ inbox[s][1].data.id = 1
       /\ Len(inbox[t]) = 2 /\ inbox[t][2].data.id = 2
       /\ Len(chats) = 2
       /\ creq[q].pc = "done" /\ creq[q].code = 201 /\ creq[q].chat = 2

\* The subscription registry of the server: the connections it holds that
\* named an order in a join_order frame, and those of them that named o.
Registry == {s \in wssClients : ws[s].orderId # Undefined}
Subscribers(o) == {s \in wssClients : ws[s].orderId = o}

NotParticipant(order, a) == ~isAuthenticated(a) \/ Outsider(order, a)

\* C19: a join_order frame for an order from the connection of a user who
\* takes no part in it registers nothing, and the connection is sent no event
\* of that order.
C19_JoinNeedsParticipant ==
    [][\A s \in Sessions :
          /\ (/\ ws'[s].orderId # ws[s].orderId
              /\ ws'[s].orderId \in DOMAIN orders)
             => ~NotParticipant(orders[ws'[s].orderId], ws[s].user)
          /\ inbox'[s] # inbox[s]
             => ~NotParticipant(
                    orders[inbox'[s][Len(inbox'[s])].data.orderId], ws[s].user)
      ]_vars

\* What the hook returns to its caller, besides its functions.
Exposed == [isConnected |-> hook.isConnected, lastMessage |-> hook.lastMessage]

\* Socket i of the hook closes in this step.
Closes(i) == sockets[i] # "closed" /\ sockets'[i] = "closed"

\* The hook gave up: its count of attempts is at the cap, every socket it
\* created is closed and no timer of it is pending.
GaveUp ==
    /\ hook.reconnectAttempts = maxReconnectAttempts
    /\ \A i \in DOMAIN sockets : sockets[i] = "closed"
    /\ \A t \in DOMAIN timers : timers[t].st # "pending"

\* C20: the hook counts at most 5 reconnect attempts since the last open; the
\* close that finds the count at 5 sets no timer; and the close after which
\* the hook has given up changes what the hook returns to its caller, which so
\* can tell that state from the wait for an attempt that is still to come.
C20_GivesUpVisibly ==
    [][\A i \in DOMAIN sockets :
          Closes(i)
          => /\ hook'.reconnectAttempts <= maxReconnectAttempts
             /\ hook.reconnectAttempts = maxReconnectAttempts => timers' = timers
             /\ GaveUp' => Exposed' # Exposed]_vars

\* The hook is connected again: its second socket is open on the server's
\* connection s2, and the connection s1 of its first socket, which is closed,
\* was subscribed to order o.
Reconnected(o) ==
    /\ Len(sockets) = 2
    /\ sockets[1] = "closed" /\ sockets[2] = "open"
    /\ ws["s1"].readyState = "closed" /\ ws["s1"].orderId = o
    /\ ws["s2"].readyState = "open"

\* C21: after the hook has reconnected, the server's new connection becomes
\* subscribed to the order the old connection was subscribed to (unless the new
\* connection is lost first).
C21_ResubscribesAfterReconnect ==
    \A o \in OrderIds :
       Reconnected(o)
       ~> (ws["s2"].orderId = o \/ ws["s2"].readyState # "open"
           \/ sockets[2] # "open")

\* The caller's joinOrderRoom(o) reaches the server in this step: the hook's
\* current socket and the server's connection for it are open.
JoinReaches(s) ==
    /\ hook.socketRef # 0
    /\ s = Peer(hook.socketRef)
    /\ sockets[hook.socketRef] = "open"
    /\ ws[s].readyState = "open"

\* C22: when the caller calls joinOrderRoom(o) on an open connection, the
\* server's connection is subscribed to o after the call.
C22_JoinOrderRoomSubscribes ==
    [][\A o \in OrderIds, s \in Sessions :
          (JoinReaches(s) /\ JoinOrderRoom(o)) => ws'[s].orderId = o]_vars

\* C23: a connection subscribed to order x stays subscribed to x for as long
\* as it is open, whatever other order it subscribes to.
C23_SubscriptionsAccumulate ==
    [][\A s \in Sessions, x \in OrderIds :
          (/\ ws[s].readyState = "open"
           /\ s \in Subscribers(x)
           /\ ws'[s].readyState = "open")
          => s \in Subscribers(x)']_vars

\* C24: a frame is sent only by the broadcast of a chat request, and it
\* carries a row the chats table already holds; the step that inserts a row
\* sends nothing; and a chat request that is answered as it arrives, because
\* it is not authenticated, does not parse or is rejected by the table,
\* inserts nothing and sends nothing.
C24_PublishAfterCommit ==
    [][/\ \A s \in Sessions :
             inbox'[s] # inbox[s]
             => /\ \E q \in ChatReqs : Broadcasts(q)
                /\ Len(inbox'[s]) = Len(inbox[s]) + 1
                /\ \E i \in DOMAIN chats :
                      chats[i] = inbox'[s][Len(inbox'[s])].data
       /\ chats' # chats => inbox' = inbox
       /\ \A q \in ChatReqs :
             (ChatArrives(q) /\ creq'[q].pc = "done")
             => /\ creq'[q].code \in {400, 401}
                /\ chats' = chats
                /\ inbox' = inbox]_vars

\* C24 witness: after a chat that was inserted and sent to the open connection
\* s, a chat request for an order that does not exist was answered 400; the
\* table and the connection hold the first chat only.
C24_Witness ==
    \E q \in ChatReqs, s \in Sessions :
       /\ creq[q].pc = "done" /\ creq[q].code = 400
       /\ creq[q].actor \in Users
       /\ ChatColumns \ {"senderId"} \subseteq DOMAIN creq[q].body
       /\ creq[q].body.orderId \notin DOMAIN orders
       /\ ws[s].readyState = "open"
       /\ Len(chats) = 1
       /\ inbox[s] = <<ChatEvent(chats[1])>>

\* C25: an update request of an authenticated actor for an order that does
\* not exist is answered 404 as it arrives, whoever the actor and whatever the
\* body, and no order is created or changed.
C25_MissingOrderNotFound ==
    [][\A r \in Reqs :
          (/\ Arrives(r)
           /\ isAuthenticated(req'[r].actor)
           /\ req'[r].order \notin DOMAIN orders)
          => /\ req'[r].pc = "done"
             /\ req'[r].code = 404
             /\ orders' = orders]_vars

\* C25 witness: a customer who owns the one order there is holds the answer
\* 404 to a status request for an order that does not exist.
C25_Witness ==
    \E r \in Reqs :
       /\ req[r].pc = "done"
       /\ req[r].code = 404
       /\ Role(req[r].actor) = "user"
       /\ req[r].order \notin DOMAIN orders
       /\ DOMAIN orders # {}
       /\ "status" \in DOMAIN req[r].body

\* The administrator has sent a request of his own.
AdminActed == req["r2"].pc # "idle"

\* C26: an order placed by the customer, pending, is brought to delivered by
\* the buttons of the vendor's and the delivery agent's dashboards alone:
\* with every button that can be pressed being pressed, and the administrator
\* sending nothing, the order becomes delivered.
C26_FlowReachesDelivered ==
    ("o1" \in DOMAIN orders /\ ~AdminActed)
    ~> (("o1" \in DOMAIN orders /\ orders["o1"].status = "delivered")
        \/ AdminActed)

\* C27: the row a chat request inserts has the actor of the request as its
\* senderId, whatever senderId the body of the request carries, and the rows
\* the table holds are never changed.
C27_SenderIsActor ==
    [][/\ \A i \in DOMAIN chats : i \in DOMAIN chats' /\ chats'[i] = chats[i]
       /\ Len(chats') > Len(chats)
          => /\ Len(chats') = Len(chats) + 1
             /\ \E q \in ChatReqs :
                   /\ ChatArrives(q)
                   /\ creq'[q].chat = Len(chats')
                   /\ isAuthenticated(creq'[q].actor)
                   /\ chats'[Len(chats')].senderId = creq'[q].actor]_vars

\* C27 witness: the table holds the chat of a request whose body named
\* another user as sender, with the actor of the request as senderId.
C27_Witness ==
    \E q \in ChatReqs :
       /\ creq[q].chat \in DOMAIN chats
       /\ "senderId" \in DOMAIN creq[q].body
       /\ creq[q].body.senderId \in Users \ {creq[q].actor}
       /\ chats[creq[q].chat].senderId = creq[q].actor

\* C28: the timer set for the n-th consecutive reconnect attempt, n from 1 to
\* 5, has the delay min(1000 * 2^n, 30000): at most 30000, and for n > 1 not
\* less than the delay of attempt n - 1 and at least its double unless it is
\* 30000.  (The last timer set is the one of attempt n - 1, since an open or a
\* disconnect() would have taken the count back to 0.)
C28_BackoffDelays ==
    [][\A i \in DOMAIN sockets :
          (Closes(i) /\ Len(timers') > Len(timers))
          => LET n == hook'.reconnectAttempts
                 d == timers'[Len(timers')].delay
             IN /\ n = hook.reconnectAttempts + 1
                /\ n \in 1 .. maxReconnectAttempts
                /\ d = IF 1000 * 2^n < 30000 THEN 1000 * 2^n ELSE 30000
                /\ d <= 30000
                /\ n > 1
                   => LET p == timers[Len(timers)].delay
                      IN d >= p /\ (d >= 2 * p \/ d = 30000)]_vars

\* C28 witness: the hook is at its fifth consecutive attempt and the last five
\* timers it set have the delays 2000, 4000, 8000, 16000 and 30000.
C28_Witness ==
    /\ hook.reconnectAttempts = 5
    /\ Len(timers) >= 5
    /\ [k \in 1 .. 5 |-> timers[Len(timers) - 5 + k].delay]
          = <<2000, 4000, 8000, 16000, 30000>>

\* disconnect() was the last call of the caller: the hook has had a socket and
\* holds none.  (Only disconnect() empties socketRef; connect() fills it.)
Disconnected == hook.socketRef = 0 /\ sockets # << >>

\* A connect() of the caller: a socket more, and no timer touched.
CallerConnects == Len(sockets') = Len(sockets) + 1 /\ timers' = timers

\* C29: after disconnect(), until the caller itself calls connect() again, no
\* reconnect timer is pending, none is set and the hook opens no socket,
\* wherever the close event of the old socket falls.
C29_DisconnectIsFinal ==
    [][(Disconnected /\ ~CallerConnects)
       => /\ \A t \in DOMAIN timers : timers[t].st # "pending"
          /\ Len(timers') = Len(timers)
          /\ Len(sockets') = Len(sockets)]_vars

\* C30: an accepted status request changes no column of its order other than
\* status and actualDeliveryTime, whatever else its body carries.
C30_StatusUpdateFrame ==
    [][\A r \in Reqs :
          (StatusAnswered(r) /\ Accepted(r))
          => \A f \in OrderColumns \ {"status", "actualDeliveryTime"} :
                orders'[req'[r].order][f] = orders[req'[r].order][f]]_vars

==========================================================================
